---- MODULE Spec2Model ----
(***************************************************************************)
(* Model of app.py: a Flask proxy in front of the GoodTill API.  One       *)
(* browser session talks to the endpoints; every handler is one action.    *)
(*                                                                         *)
(* Representation choices:                                                 *)
(*   - a Python str is a sequence of one-character strings, so slicing     *)
(*     (date_str[:10]) and the lexicographic order used by sorted() are    *)
(*     computed, not assumed;                                              *)
(*   - a Python float holding money is an integer number of thousandths    *)
(*     (mills); round(x, 2) rounds it to a multiple of 10 mills, ties to   *)
(*     even.  Binary representation error of floats is not modelled;       *)
(*   - a Python dict is a sequence of entries in insertion order.          *)
(***************************************************************************)
EXTENDS Integers, Sequences, FiniteSets, TLC

VARIABLES session, req, resp, calls

vars == <<session, req, resp, calls>>

(***************************************************************************)
(* Bounds and program constants                                            *)
(***************************************************************************)
\* longest list of sale records the upstream returns in the model
MaxSales == 2

\* date_str[:10]
KeyLen == 10

\* transactions[:100]
TransLimit == 100

(***************************************************************************)
(* Strings                                                                 *)
(***************************************************************************)
\* the characters used by the model's strings, in code-point order
Alphabet ==
    <<" ", "-", ".", "0", "1", "2", "3", "4", "5", "6", "7", "8", "9",
      "B", "U", "a", "b", "c", "d", "e", "k", "n", "o", "r", "t", "w">>

Ord(c) == CHOOSE i \in 1..Len(Alphabet) : Alphabet[i] = c

Digits == {"0", "1", "2", "3", "4", "5", "6", "7", "8", "9"}

DigitVal(c) == Ord(c) - Ord("0")

\* s[:n]
Take(s, n) == IF Len(s) <= n THEN s ELSE SubSeq(s, 1, n)

\* Python's str < str: the first differing character decides, a proper
\* prefix is smaller
RECURSIVE StrLess(_, _)
StrLess(a, b) ==
    IF b = <<>> THEN FALSE
    ELSE IF a = <<>> THEN TRUE
    ELSE IF Head(a) # Head(b) THEN Ord(Head(a)) < Ord(Head(b))
    ELSE StrLess(Tail(a), Tail(b))

\* the sale_date_time strings the upstream sends in the model
TsDay1Morning == <<"2","0","2","4","-","0","1","-","0","1"," ","0","9">>
TsDay1Evening == <<"2","0","2","4","-","0","1","-","0","1"," ","1","8">>
TsNotADate    == <<"n","o","t","-","a","-","d","a","t","e">>
TsShort       == <<"2","0","2","4","-","0","1">>

\* the total_inc_vat strings
StrTwoPointFive == <<"2", ".", "5">>
StrAbc          == <<"a", "b", "c">>

\* outlet names
StrUnknown == <<"U","n","k","n","o","w","n">>
StrBar     == <<"B","a","r">>

(***************************************************************************)
(* Sale records as the upstream sends them.  A field is [kind, ...]:       *)
(* kind "absent" is a key that is missing from the mapping, "null" a JSON  *)
(* null, "num" a JSON number (mills), "str" a JSON string.                 *)
(***************************************************************************)
Absent == [kind |-> "absent", num |-> 0, s |-> <<>>]
Null   == [kind |-> "null", num |-> 0, s |-> <<>>]
Num(n) == [kind |-> "num", num |-> n, s |-> <<>>]
Str(s) == [kind |-> "str", num |-> 0, s |-> s]

AmountValues == {Absent, Null, Num(5), Str(StrTwoPointFive), Str(StrAbc)}

TimestampValues ==
    {Absent, Str(TsDay1Morning), Str(TsDay1Evening), Str(TsNotADate), Str(TsShort)}

OutletValues == {Absent, Str(StrBar)}

SaleValues ==
    [total_inc_vat : AmountValues, sale_date_time : TimestampValues,
     outlet_name : OutletValues]

RECURSIVE SeqsUpTo(_, _)
SeqsUpTo(S, n) ==
    IF n = 0 THEN {<<>>}
    ELSE LET shorter == SeqsUpTo(S, n - 1)
         IN  shorter \cup {Append(q, x) : q \in {t \in shorter : Len(t) = n - 1}, x \in S}

SalesLists == SeqsUpTo(SaleValues, MaxSales)

(***************************************************************************)
(* float(), round(), dict helpers                                          *)
(***************************************************************************)
Raised(v)   == [ok |-> FALSE, val |-> 0]
Returned(v) == [ok |-> TRUE, val |-> v]

IsDigits(s) == \A i \in 1..Len(s) : s[i] \in Digits

RECURSIVE DigitsVal(_)
DigitsVal(s) ==
    IF s = <<>> THEN 0
    ELSE 10 * DigitsVal(SubSeq(s, 1, Len(s) - 1)) + DigitVal(s[Len(s)])

\* float(str) for plain decimal literals ("12", "2.5", "2.", ".5"); any
\* other text raises ValueError.  Digits past the third decimal are dropped
\* by the representation in mills.
ParseFloat(s) ==
    LET dots == {i \in 1..Len(s) : s[i] = "."}
    IN  IF dots = {}
        THEN IF s # <<>> /\ IsDigits(s) THEN Returned(1000 * DigitsVal(s)) ELSE Raised(0)
        ELSE IF Cardinality(dots) # 1 THEN Raised(0)
        ELSE LET p  == CHOOSE i \in dots : TRUE
                 ip == SubSeq(s, 1, p - 1)
                 fp == Take(SubSeq(s, p + 1, Len(s)), 3)
                 scale == CASE Len(fp) = 0 -> 1000 [] Len(fp) = 1 -> 100
                            [] Len(fp) = 2 -> 10 [] OTHER -> 1
             IN  IF IsDigits(ip) /\ IsDigits(fp) /\ Len(ip) + Len(fp) > 0
                 THEN Returned(1000 * DigitsVal(ip) + scale * DigitsVal(fp))
                 ELSE Raised(0)

\* float(sale.get('total_inc_vat', 0)): the default 0 applies to a missing
\* key only; float(None) raises TypeError, float("abc") ValueError
Float(field) ==
    CASE field.kind = "absent" -> Returned(0)
      [] field.kind = "null"   -> Raised(0)
      [] field.kind = "num"    -> Returned(field.num)
      [] OTHER                 -> ParseFloat(field.s)

\* n / d rounded to the nearest integer, ties to even (n >= 0, d > 0)
RoundHalfEven(n, d) ==
    LET q == n \div d
        r == n % d
    IN  IF 2 * r < d THEN q
        ELSE IF 2 * r > d THEN q + 1
        ELSE IF q % 2 = 0 THEN q ELSE q + 1

\* round(x, 2) of an amount in mills: a multiple of 10 mills
Round2(m) == 10 * RoundHalfEven(m, 10)

\* round(total / count, 2)
Round2Div(total, count) == 10 * RoundHalfEven(total, 10 * count)

\* sale.get('outlet_name') without the default
OutletOfNoDefault(sale) == sale.outlet_name.s

\* sale.get('outlet_name', 'Unknown')
OutletOf(sale) ==
    IF sale.outlet_name.kind = "absent" THEN StrUnknown ELSE sale.outlet_name.s

\* date_str = sale.get('sale_date_time', ''); date_str[:10] if date_str else ''
DateKey(sale) ==
    LET date_str == IF sale.sale_date_time.kind = "str" THEN sale.sale_date_time.s ELSE <<>>
    IN  IF date_str # <<>> THEN Take(date_str, KeyLen) ELSE <<>>

Keys(d) == {d[i].key : i \in 1..Len(d)}

\* d[key] = {'revenue': amount, 'count': 1} on every record: `=` for `+=`
AccumulateOverwrite(d, key, amount) ==
    LET e == IF key \in Keys(d) THEN d ELSE Append(d, [key |-> key, revenue |-> 0, count |-> 0])
    IN  [i \in 1..Len(e) |->
            IF e[i].key = key THEN [key |-> key, revenue |-> amount, count |-> 1] ELSE e[i]]

\* if key not in d: d[key] = {'revenue': 0.0, 'count': 0}
\* d[key]['revenue'] += amount; d[key]['count'] += 1
Accumulate(d, key, amount) ==
    LET e == IF key \in Keys(d) THEN d ELSE Append(d, [key |-> key, revenue |-> 0, count |-> 0])
    IN  [i \in 1..Len(e) |->
            IF e[i].key = key
            THEN [key |-> key, revenue |-> e[i].revenue + amount, count |-> e[i].count + 1]
            ELSE e[i]]

\* payment_types[k] = amount: the earlier sum dropped
AddToOverwrite(d, key, amount) ==
    IF key \in Keys(d)
    THEN [i \in 1..Len(d) |->
            IF d[i].key = key THEN [key |-> key, value |-> amount] ELSE d[i]]
    ELSE Append(d, [key |-> key, value |-> amount])

\* payment_types[k] = payment_types.get(k, 0) + amount
AddTo(d, key, amount) ==
    IF key \in Keys(d)
    THEN [i \in 1..Len(d) |->
            IF d[i].key = key THEN [key |-> key, value |-> d[i].value + amount] ELSE d[i]]
    ELSE Append(d, [key |-> key, value |-> amount])

\* daily_agg.items() left in insertion order
UnsortedItems(d) == d

\* sorted(daily_agg.items()): ascending by key (keys are distinct)
RECURSIVE SortedItems(_)
SortedItems(d) ==
    IF d = <<>> THEN <<>>
    ELSE LET m == CHOOSE i \in 1..Len(d) :
                    \A j \in 1..Len(d) : j # i => StrLess(d[i].key, d[j].key)
             rest == [k \in 1..(Len(d) - 1) |-> IF k < m THEN d[k] ELSE d[k + 1]]
         IN  <<d[m]>> \o SortedItems(rest)

(***************************************************************************)
(* get_data: the aggregation loop and the response                         *)
(***************************************************************************)
EmptyAgg ==
    [total_revenue |-> 0, successful_count |-> 0, payment_types |-> <<>>,
     daily_agg |-> <<>>, transactions |-> <<>>, outlet_agg |-> <<>>, raised |-> FALSE]

\* one iteration of `for sale in sales`, with amount already converted
FoldSale(acc, sale, amount) ==
    LET outlet   == OutletOf(sale)
        date_key == DateKey(sale)
    IN  [total_revenue    |-> acc.total_revenue + amount,
         successful_count |-> acc.successful_count + 1,
         payment_types    |-> AddTo(acc.payment_types, "CARD", amount),
         daily_agg        |-> IF date_key # <<>>
                              THEN Accumulate(acc.daily_agg, date_key, amount)
                              ELSE acc.daily_agg,
         transactions     |-> Append(acc.transactions,
                                [timestamp |-> sale.sale_date_time, amount |-> amount,
                                 status |-> "SUCCESSFUL", payment_type |-> "CARD",
                                 currency |-> "GBP", outlet |-> outlet]),
         outlet_agg       |-> Accumulate(acc.outlet_agg, outlet, amount),
         raised           |-> FALSE]

\* the loop from record i on; float() raising leaves the loop at once
RECURSIVE AggregateFrom(_, _, _)
AggregateFrom(sales, i, acc) ==
    IF i > Len(sales) THEN acc
    ELSE LET amount == Float(sales[i].total_inc_vat)
         IN  IF ~amount.ok THEN [acc EXCEPT !.raised = TRUE]
             ELSE AggregateFrom(sales, i + 1, FoldSale(acc, sales[i], amount.val))

Aggregate(sales) == AggregateFrom(sales, 1, EmptyAgg)

ZeroSummary ==
    [total_revenue |-> 0, total_transactions |-> 0, avg_transaction |-> 0,
     failed_transactions |-> 0, payment_types |-> <<>>]

Response(status, error, body) == [status |-> status, error |-> error, body |-> body]

NotAuthenticated == Response(401, "Not authenticated", [none |-> TRUE])

\* the same branch answering 500
DataApiErrorAs500 ==
    Response(500, "API Error",
        [summary |-> ZeroSummary, daily |-> <<>>, has_outlets |-> FALSE,
         outlets |-> <<>>, transactions |-> <<>>])

\* the branch `if response.status_code != 200` of get_data: no status
\* given to jsonify, no "outlets" key
DataApiError ==
    Response(200, "API Error",
        [summary |-> ZeroSummary, daily |-> <<>>, has_outlets |-> FALSE,
         outlets |-> <<>>, transactions |-> <<>>])

\* the `except Exception` branch of get_data
DataException ==
    Response(500, "exception",
        [summary |-> ZeroSummary, daily |-> <<>>, has_outlets |-> TRUE,
         outlets |-> <<>>, transactions |-> <<>>])

DailyEntry(e)  == [date |-> e.key, revenue |-> Round2(e.revenue), count |-> e.count]
OutletEntry(e) == [name |-> e.key, revenue |-> Round2(e.revenue), count |-> e.count]

\* the response built from a 200 upstream reply carrying `sales`
DataResult(sales) ==
    LET acc == Aggregate(sales)
    IN  IF acc.raised THEN DataException
        ELSE LET sorted_daily == SortedItems(acc.daily_agg)
             IN  Response(200, "",
                   [summary |->
                      [total_revenue |-> Round2(acc.total_revenue),
                       total_transactions |-> acc.successful_count,
                       avg_transaction |->
                          IF acc.successful_count > 0
                          THEN Round2Div(acc.total_revenue, acc.successful_count)
                          ELSE 0,
                       failed_transactions |-> 0,
                       payment_types |->
                          [i \in 1..Len(acc.payment_types) |->
                             [key |-> acc.payment_types[i].key,
                              value |-> Round2(acc.payment_types[i].value)]]],
                    daily |-> [i \in 1..Len(sorted_daily) |-> DailyEntry(sorted_daily[i])],
                    has_outlets |-> TRUE,
                    outlets |-> [i \in 1..Len(acc.outlet_agg) |-> OutletEntry(acc.outlet_agg[i])],
                    transactions |-> Take(acc.transactions, TransLimit)])

(***************************************************************************)
(* The session (a dict) and the upstream's replies                         *)
(***************************************************************************)
EmptySession == [k \in {} |-> ""]

\* session[k] = v
Put(s, k, v) == [x \in DOMAIN s \cup {k} |-> IF x = k THEN v ELSE s[x]]

\* 'token' in session
HasToken(s) == "token" \in DOMAIN s

\* an upstream reply: status 0 stands for requests raising (no reply at all)
Reply(status, body) == [status |-> status, body |-> body]

\* a body that is not a list of sales, named by what it holds
Text(b) == [text |-> b]

NoCall == Reply(-1, Text(""))

\* statuses the upstream answers with; 0: the call itself raises
UpstreamStatuses == {0, 200, 204, 401, 500}

\* bodies of a reply to get_sales
SalesBody(sales) == [json |-> TRUE, data |-> sales]
NotJsonBody      == [json |-> FALSE, data |-> <<>>]

DataReplies(lists) ==
    {Reply(st, NotJsonBody) : st \in UpstreamStatuses}
        \cup {Reply(200, SalesBody(sales)) : sales \in lists}

\* bodies of a reply to /api/login: a JSON object with a token, one without,
\* a JSON value that is no object, and text that is no JSON
LoginBodies == {"tok1", "tok2", "no-token", "not-an-object", "not-json"}

LoginReplies ==
    {Reply(st, Text("not-json")) : st \in UpstreamStatuses}
        \cup {Reply(200, Text(b)) : b \in LoginBodies}

\* bodies of the other upstream replies: one the handler's code after the
\* status check processes, and one on which that code raises
PlainReplies ==
    {Reply(st, Text("invalid")) : st \in UpstreamStatuses} \cup {Reply(200, Text("ok"))}

\* request.get_json() of a login request; "none" is a request without JSON
LoginJsons ==
    {[json |-> FALSE, subdomain |-> "", username |-> ""],
     [json |-> TRUE, subdomain |-> "shopA", username |-> "alice"],
     [json |-> TRUE, subdomain |-> "shopB", username |-> "bob"]}

Outcome(s, r, n) == [session |-> s, resp |-> r, calls |-> n]

Exception500 == Response(500, "exception", [none |-> TRUE])

(***************************************************************************)
(* The handlers, as functions of the session, the request and the reply    *)
(***************************************************************************)
\* lines 30-34 of login: the session after a 200 reply whose body is `body`
LoginSession(s, json, body) ==
    LET permanent == Put(s, "_permanent", "True")
    IN  IF body = "not-an-object" THEN permanent
        ELSE Put(Put(Put(permanent, "token", IF body = "no-token" THEN "None" ELSE body),
                     "subdomain", json.subdomain),
                 "username", json.username)

\* subdomain and username stored before the status is looked at
RejectedLoginStoresUser(s, json, up) ==
    Put(Put(s, "subdomain", json.subdomain), "username", json.username)

\* the session after a reply whose status is not 200
RejectedLoginSession(s, json, up) == s

login(s, json, up) ==
    IF ~json.json THEN Outcome(s, Exception500, 0)
    ELSE IF up.status = 0 THEN Outcome(s, Exception500, 1)
    ELSE IF up.status # 200
         THEN Outcome(RejectedLoginSession(s, json, up),
                      Response(up.status, "Authentication failed", [none |-> TRUE]), 1)
    ELSE IF up.body.text = "not-json" THEN Outcome(s, Exception500, 1)
    ELSE IF up.body.text = "not-an-object"
         THEN Outcome(LoginSession(s, json, up.body.text), Exception500, 1)
    ELSE Outcome(LoginSession(s, json, up.body.text),
                 Response(200, "", [success |-> TRUE]), 1)

\* session.clear()
ClearedSession(s) == EmptySession

logout(s) == Outcome(ClearedSession(s), Response(200, "", [success |-> TRUE]), 0)

check_auth(s) ==
    IF HasToken(s)
    THEN Outcome(s, Response(200, "", [authenticated |-> TRUE, username |-> s["username"]]), 0)
    ELSE Outcome(s, Response(401, "", [authenticated |-> FALSE]), 0)

get_merchant(s) ==
    IF ~HasToken(s) THEN Outcome(s, NotAuthenticated, 0)
    ELSE Outcome(s, Response(200, "",
                    [subdomain |-> s["subdomain"], username |-> s["username"]]), 0)

\* the guard left out
NeverUnauthenticated(s) == FALSE

\* the guard `if 'token' not in session` of a protected endpoint
Unauthenticated(s) == ~HasToken(s)

\* days_ok: int(request.args.get('days', 30)) succeeds
get_data(s, days_ok, up) ==
    IF Unauthenticated(s) THEN Outcome(s, NotAuthenticated, 0)
    ELSE IF ~days_ok THEN Outcome(s, DataException, 0)
    ELSE IF up.status = 0 THEN Outcome(s, DataException, 1)
    ELSE IF up.status # 200 THEN Outcome(s, DataApiError, 1)
    ELSE IF ~up.body.json THEN Outcome(s, DataException, 1)
    ELSE Outcome(s, DataResult(up.body.data), 1)

get_products(s, up) ==
    IF Unauthenticated(s) THEN Outcome(s, NotAuthenticated, 0)
    ELSE IF up.status = 0
         THEN Outcome(s, Response(500, "exception", [products |-> "empty"]), 1)
    ELSE IF up.status # 200
         THEN Outcome(s, Response(200, "API Error", [products |-> "empty"]), 1)
    ELSE IF up.body.text = "invalid"
         THEN Outcome(s, Response(500, "exception", [products |-> "empty"]), 1)
    ELSE Outcome(s, Response(200, "", [products |-> "listed"]), 1)

\* get_sales_summary, get_product_summary, get_cost_of_goods: the same
\* code against three upstream URLs.  has_json: request.get_json() is a dict
report(s, has_json, up) ==
    IF Unauthenticated(s) THEN Outcome(s, NotAuthenticated, 0)
    ELSE IF ~has_json THEN Outcome(s, Exception500, 0)
    ELSE IF up.status = 0 THEN Outcome(s, Exception500, 1)
    ELSE IF up.status # 200
         THEN Outcome(s, Response(up.status, "API Error", [none |-> TRUE]), 1)
    ELSE IF up.body.text = "invalid" THEN Outcome(s, Exception500, 1)
    ELSE Outcome(s, Response(200, "", [report |-> TRUE]), 1)

\* input: "none" (no JSON body), "no-key" (api_key empty or missing), "key"
chat(s, input, up) ==
    IF Unauthenticated(s) THEN Outcome(s, NotAuthenticated, 0)
    ELSE IF input = "none" THEN Outcome(s, Exception500, 0)
    ELSE IF input = "no-key"
         THEN Outcome(s, Response(400, "Gemini API key required", [none |-> TRUE]), 0)
    ELSE IF up.status = 0 THEN Outcome(s, Exception500, 1)
    ELSE IF up.status # 200
         THEN Outcome(s, Response(500, "Failed to get AI response", [none |-> TRUE]), 1)
    ELSE IF up.body.text = "invalid" THEN Outcome(s, Exception500, 1)
    ELSE Outcome(s, Response(200, "", [response |-> TRUE]), 1)

(***************************************************************************)
(* State machine                                                           *)
(***************************************************************************)
\* one request handled from start to finish; the reply is recorded only
\* when the handler called the upstream
Handle(endpoint, input, up, out) ==
    /\ req' = [endpoint |-> endpoint, input |-> input,
               upstream |-> IF out.calls = 0 THEN NoCall ELSE up]
    /\ session' = out.session
    /\ resp' = out.resp
    /\ calls' = out.calls

NoInput == [none |-> TRUE]

NoRequest == [endpoint |-> "none", input |-> NoInput, upstream |-> NoCall]

Init ==
    /\ session = EmptySession
    /\ req = NoRequest
    /\ resp = Response(0, "", [none |-> TRUE])
    /\ calls = 0

Login ==
    \E json \in LoginJsons, up \in LoginReplies :
        Handle("login", json, up, login(session, json, up))

Logout == Handle("logout", NoInput, NoCall, logout(session))

CheckAuth == Handle("check-auth", NoInput, NoCall, check_auth(session))

GetMerchant == Handle("merchant", NoInput, NoCall, get_merchant(session))

\* the lists of sale records fetched in the session machine: the empty
\* list and every list of one record
SampleSalesLists == {<<>>} \cup {<<sale>> : sale \in SaleValues}

GetData ==
    \E days_ok \in BOOLEAN, up \in DataReplies(SampleSalesLists) :
        Handle("data", [days_ok |-> days_ok], up, get_data(session, days_ok, up))

GetProducts ==
    \E up \in PlainReplies : Handle("products", NoInput, up, get_products(session, up))

ReportEndpoints == {"sales-summary", "product-summary", "cost-of-goods"}

GetReport ==
    \E e \in ReportEndpoints, has_json \in BOOLEAN, up \in PlainReplies :
        Handle(e, [has_json |-> has_json], up, report(session, has_json, up))

Chat ==
    \E input \in {"none", "no-key", "key"}, up \in PlainReplies :
        Handle("chat", [chat_body |-> input], up, chat(session, input, up))

Next ==
    \/ Login
    \/ Logout
    \/ CheckAuth
    \/ GetMerchant
    \/ GetData
    \/ GetProducts
    \/ GetReport
    \/ Chat

Spec == Init /\ [][Next]_vars

(***************************************************************************)
(* The aggregation alone: an authenticated session fetching every list of  *)
(* up to MaxSales records                                                  *)
(***************************************************************************)
LoggedInSession ==
    LoginSession(EmptySession, [json |-> TRUE, subdomain |-> "shopA", username |-> "alice"],
                 "tok1")

InitAgg ==
    /\ session = LoggedInSession
    /\ req = [endpoint |-> "login",
              input |-> [json |-> TRUE, subdomain |-> "shopA", username |-> "alice"],
              upstream |-> Reply(200, Text("tok1"))]
    /\ resp = Response(200, "", [success |-> TRUE])
    /\ calls = 1

\* get_data keeps nothing from one request to the next and leaves the
\* session alone, so every list is fetched once, right after the login
GetSales ==
    /\ req.endpoint = "login"
    /\ \E days_ok \in BOOLEAN, up \in DataReplies(SalesLists) :
          Handle("data", [days_ok |-> days_ok], up, get_data(session, days_ok, up))

NextAgg == GetSales

SpecAgg == InitAgg /\ [][NextAgg]_vars

(***************************************************************************)
(* Vocabulary of the properties                                            *)
(***************************************************************************)
RECURSIVE Sum(_)
Sum(q) == IF q = <<>> THEN 0 ELSE Head(q) + Sum(Tail(q))

Abs(n) == IF n < 0 THEN -n ELSE n

\* the last request was get_data and the upstream answered 200 with a list
Fetched ==
    /\ req.endpoint = "data"
    /\ calls = 1
    /\ req.upstream.status = 200
    /\ "json" \in DOMAIN req.upstream.body
    /\ req.upstream.body.json

FetchedSales == req.upstream.body.data

\* what a record's total_inc_vat is worth, read off the record itself
AmountOf(sale) ==
    LET f == sale.total_inc_vat
    IN  CASE f.kind = "num" -> f.num
          [] f.kind = "str" /\ f.s = StrTwoPointFive -> 2500
          [] OTHER -> 0

\* total_inc_vat that is absent, a number or a numeric string
GoodAmount(sale) ==
    \/ sale.total_inc_vat.kind \in {"absent", "num"}
    \/ sale.total_inc_vat.kind = "str" /\ sale.total_inc_vat.s = StrTwoPointFive

NameOf(sale) ==
    IF sale.outlet_name.kind = "str" THEN sale.outlet_name.s ELSE StrUnknown

TimestampOf(sale) ==
    IF sale.sale_date_time.kind = "str" THEN sale.sale_date_time.s ELSE <<>>

BeginsWith(s, prefix) ==
    Len(s) >= Len(prefix) /\ SubSeq(s, 1, Len(prefix)) = prefix

\* a non-empty string without a single digit, such as "not-a-date"
NotADate(s) == s # <<>> /\ \A i \in 1..Len(s) : s[i] \notin Digits

Dated(sale) == ~NotADate(TimestampOf(sale))

Amounts(sales, keep(_)) ==
    [i \in 1..Len(sales) |-> IF keep(sales[i]) THEN AmountOf(sales[i]) ELSE 0]

Count(sales, keep(_)) == Cardinality({i \in 1..Len(sales) : keep(sales[i])})

Summary  == resp.body.summary
Daily    == resp.body.daily
Outlets  == resp.body.outlets

DailyRevenue == Sum([i \in 1..Len(Daily) |-> Daily[i].revenue])
DailyCount   == Sum([i \in 1..Len(Daily) |-> Daily[i].count])
OutletRevenue == Sum([i \in 1..Len(Outlets) |-> Outlets[i].revenue])
OutletCount   == Sum([i \in 1..Len(Outlets) |-> Outlets[i].count])
PaymentTotal ==
    Sum([i \in 1..Len(Summary.payment_types) |-> Summary.payment_types[i].value])

(***************************************************************************)
(* Properties of get_data's aggregation (checked under SpecAgg)            *)
(***************************************************************************)
IsAny(sale) == TRUE

\* C1: whenever the upstream answered 200 with a list of sale records, the
\* summary's total_transactions is the number of records, total_revenue is
\* the (2-decimal) sum of their amounts, an absent amount counting 0, and
\* the payment_types values sum to total_revenue.
C1_SummaryMatchesRecords ==
    Fetched =>
        /\ Summary.total_transactions = Len(FetchedSales)
        /\ Summary.total_revenue = Round2(Sum(Amounts(FetchedSales, IsAny)))
        /\ PaymentTotal = Summary.total_revenue

\* C3: a record whose timestamp is a non-date string such as "not-a-date"
\* is counted in the summary and left out of the daily series: no daily
\* entry carries its text as key, and it adds to no daily count.
C3_MalformedTimestampNotInDaily ==
    (Fetched /\ \A i \in 1..Len(FetchedSales) : GoodAmount(FetchedSales[i])) =>
        /\ Summary.total_transactions = Len(FetchedSales)
        /\ \A k \in 1..Len(FetchedSales) : \A i \in 1..Len(Daily) :
             NotADate(TimestampOf(FetchedSales[k]))
                 => Daily[i].date # Take(TimestampOf(FetchedSales[k]), KeyLen)
        /\ DailyCount <= Count(FetchedSales, Dated)

\* C4: converting an amount never raises: whatever total_inc_vat holds, the
\* response is not the zeroed error response and the records with a usable
\* amount are all aggregated.
C4_BadAmountNeverAborts ==
    Fetched =>
        /\ resp.status = 200
        /\ resp.error = ""
        /\ Summary.total_transactions >= Count(FetchedSales, GoodAmount)
        /\ OutletCount >= Count(FetchedSales, GoodAmount)

\* the records that belong to a daily key: those whose timestamp begins
\* with the 10-character key; a key shorter than 10 characters is a whole
\* timestamp
BelongsTo(sale, key) ==
    IF Len(key) = KeyLen THEN BeginsWith(TimestampOf(sale), key)
    ELSE TimestampOf(sale) = key

HasTimestamp(sale) == TimestampOf(sale) # <<>>

\* C2 as stated: for every list of records the daily revenues sum to
\* total_revenue within 0.01 per daily bucket, and the daily counts sum to
\* total_transactions.
C2_DailySumsToSummary ==
    Fetched =>
        /\ Abs(DailyRevenue - Summary.total_revenue) <= 10 * Len(Daily)
        /\ DailyCount = Summary.total_transactions

\* C2 amended: the same, for lists in which every record carries a
\* non-empty sale_date_time.
C2_DailySumsToSummaryWhenTimestamped ==
    (Fetched /\ \A k \in 1..Len(FetchedSales) : HasTimestamp(FetchedSales[k])) =>
        /\ Abs(DailyRevenue - Summary.total_revenue) <= 10 * Len(Daily)
        /\ DailyCount = Summary.total_transactions

\* two timestamped records in two buckets whose rounded revenues do not add
\* up to the rounded total
C2_Witness ==
    /\ Fetched
    /\ \A k \in 1..Len(FetchedSales) : HasTimestamp(FetchedSales[k])
    /\ resp.error = ""
    /\ Len(Daily) = 2
    /\ DailyRevenue # Summary.total_revenue

FirstIndex(sales, name) ==
    CHOOSE k \in 1..Len(sales) :
        /\ NameOf(sales[k]) = name
        /\ \A m \in 1..(k - 1) : NameOf(sales[m]) # name

\* what C8 says besides the revenue total: the counts add up to
\* total_transactions, every listed name is the name of a fetched record
\* ("Unknown" for a record without outlet_name) and counts exactly the
\* records of that name, and the names come in first-seen order, each once
OutletsListed ==
    /\ OutletCount = Summary.total_transactions
    /\ \A i \in 1..Len(Outlets) :
         LET named(sale) == NameOf(sale) = Outlets[i].name
         IN  /\ \E k \in 1..Len(FetchedSales) : named(FetchedSales[k])
             /\ Outlets[i].count = Count(FetchedSales, named)
             /\ Outlets[i].revenue = Round2(Sum(Amounts(FetchedSales, named)))
    /\ \A i, j \in 1..Len(Outlets) :
         i < j => FirstIndex(FetchedSales, Outlets[i].name)
                    < FirstIndex(FetchedSales, Outlets[j].name)

Orderings(n) == {f \in [1..n -> 1..n] : \A i, j \in 1..n : f[i] = f[j] => i = j}

Reordered(sales, f) == [i \in 1..Len(sales) |-> sales[f[i]]]

Entries(q) == {q[i] : i \in 1..Len(q)}

UpstreamEndpoints == {"data", "products"} \cup ReportEndpoints

ProtectedEndpoints == {"merchant", "chat"} \cup UpstreamEndpoints

\* the upstream answered, and not with a 2xx status
Non2xx(status) == status > 0 /\ ~(200 <= status /\ status <= 299)

UpstreamFailed ==
    /\ req.endpoint \in UpstreamEndpoints
    /\ calls >= 1
    /\ Non2xx(req.upstream.status)

C6_NoTokenMeans401 ==
    [][ /\ (req'.endpoint \in ProtectedEndpoints /\ ~HasToken(session))
            => (resp'.status = 401 /\ calls' = 0 /\ ~HasToken(session'))
        /\ req'.endpoint = "logout" => ~HasToken(session')
        /\ (~HasToken(session) /\ HasToken(session'))
            => (req'.endpoint = "login" /\ req'.upstream.status = 200
                  /\ resp'.status = 200)
      ]_vars

\* a report requested on a session that a logout (or nothing yet) left
\* without token
C6_Witness ==
    /\ req.endpoint = "cost-of-goods"
    /\ session = EmptySession
    /\ resp = NotAuthenticated
    /\ calls = 0

\* C10: a login the upstream answers with a status other than 200 leaves
\* the session as it was.
C10_RejectedLoginKeepsSession ==
    [][ (req'.endpoint = "login" /\ calls' = 1 /\ req'.upstream.status \notin {0, 200})
            => session' = session
      ]_vars

\* bob's login is rejected on alice's session, which keeps her token
C10_Witness ==
    /\ req.endpoint = "login"
    /\ req.upstream.status = 401
    /\ req.input.username = "bob"
    /\ resp.status = 401
    /\ HasToken(session)
    /\ session["username"] = "alice"
    /\ session["token"] = "tok2"

====
